---- MODULE Spec2Model ----
(***************************************************************************)
(* A model of aida64-keys-lib (src/aida64-keys-lib/src/lib.rs): the        *)
(* base-34 symbol codec, the checksum, the License builder, generate,      *)
(* generate_string, from_key and is_valid_key.                             *)
(*                                                                         *)
(* Bytes are their ASCII codes.  An i32 is an integer of TLC's own width   *)
(* (32 bits, two's complement); the u32 shift register of get_checksum is  *)
(* kept as two 16-bit halves so that its 32-bit width is exact.  A         *)
(* Duration is a whole number of days (num_days() of it).  A Date<Utc> is  *)
(* a record [y, m, d] of a calendar date.  A panic of the code (an index   *)
(* out of bounds, Utc.ymd on a non-date) is the outcome "Panic".           *)
(***************************************************************************)
EXTENDS Integers, Sequences, FiniteSets

VARIABLES lic, today, calls, gen, text, edits, parsed, prev, valid, op

vars == <<lic, today, calls, gen, text, edits, parsed, prev, valid, op>>

(***************************************************************************)
(* Bounds of the model.                                                    *)
(***************************************************************************)
\* builder calls and field writes a client makes on one License
MaxCalls == 2
\* edits a user makes to one key text before it is parsed
MaxEdits == 2

(***************************************************************************)
(* Bit operations on i32 values.                                           *)
(***************************************************************************)
RECURSIVE NatXor(_, _)
NatXor(a, b) ==
    IF a = 0 THEN b
    ELSE IF b = 0 THEN a
    ELSE ((a + b) % 2) + 2 * NatXor(a \div 2, b \div 2)

RECURSIVE NatAnd(_, _)
NatAnd(a, b) ==
    IF a = 0 \/ b = 0 THEN 0
    ELSE (a % 2) * (b % 2) + 2 * NatAnd(a \div 2, b \div 2)

\* ~x of a two's complement integer
BitNot(x) == (-x) - 1

\* a ^ b on i32 (x ^ y = ~x ^ ~y, ~(x ^ y) = ~x ^ y)
Xor(a, b) ==
    IF a >= 0 /\ b >= 0 THEN NatXor(a, b)
    ELSE IF a < 0 /\ b < 0 THEN NatXor(BitNot(a), BitNot(b))
    ELSE IF a < 0 THEN BitNot(NatXor(BitNot(a), b))
    ELSE BitNot(NatXor(a, BitNot(b)))

\* a & m for a mask m >= 0 (a & m = m - (~a & m) when a < 0)
And(a, m) ==
    IF a >= 0 THEN NatAnd(a, m) ELSE m - NatAnd(BitNot(a), m)

\* a >> n on a non-negative i32
Shr(a, n) == a \div (2 ^ n)

\* Rust's / and % on i32: the quotient truncates toward zero and the
\* remainder has the sign of the dividend
TruncDiv(a, b) == IF a >= 0 THEN a \div b ELSE -((-a) \div b)

TruncRem(a, b) == a - b * TruncDiv(a, b)

Clamp(x, lo, hi) == IF x < lo THEN lo ELSE IF x > hi THEN hi ELSE x

(***************************************************************************)
(* The alphabet.                                                           *)
(***************************************************************************)
KEY_CHARS ==
    << 68, 89, 49, 52, 85, 70, 51, 82, 72, 87, 67, 88, 76, 81, 66, 54,
       73, 75, 74, 84, 57, 78, 53, 65, 71, 83, 50, 80, 77, 56, 86, 90,
       55, 69 >>

KEYS_SIZE == Len(KEY_CHARS)

Alphabet == {KEY_CHARS[i] : i \in 1..KEYS_SIZE}

\* KEY_CHARS.iter().position(|&c2| c2 == *c1).unwrap_or(0)
Position(c) ==
    IF c \in Alphabet
    THEN (CHOOSE i \in 1..KEYS_SIZE : KEY_CHARS[i] = c) - 1
    ELSE 0

\* u8::is_ascii_alphanumeric
IsAsciiAlphanumeric(b) ==
    (b >= 48 /\ b <= 57) \/ (b >= 65 /\ b <= 90) \/ (b >= 97 /\ b <= 122)

(***************************************************************************)
(* Symbol codec.                                                           *)
(***************************************************************************)
\* The index enc_part computes for each of the n positions, leftmost first:
\* position i (from the right, 0-based) gets (val / 34^i) % 34.
RECURSIVE EncIndices(_, _)
EncIndices(val, n) ==
    IF n = 0 THEN << >>
    ELSE Append(EncIndices(TruncDiv(val, KEYS_SIZE), n - 1),
                TruncRem(val, KEYS_SIZE))

\* KEY_CHARS[(val % KEYS_SIZE) as usize] is out of bounds for a negative
\* remainder: the cast to usize makes it a huge index
EncPanics(val, n) == \E i \in 1..n : EncIndices(val, n)[i] < 0

\* enc_part(val, slice) for a slice of n bytes, when it does not panic
enc_part(val, n) ==
    LET ix == EncIndices(val, n)
    IN  [i \in 1..n |-> KEY_CHARS[ix[i] + 1]]

RECURSIVE DecFold(_, _)
DecFold(result, s) ==
    IF s = << >> THEN result
    ELSE DecFold(result * KEYS_SIZE + Position(Head(s)), Tail(s))

dec_part(key_part) == DecFold(0, key_part)

(***************************************************************************)
(* Checksum.  The u32 accumulator is the pair <<hi, lo>> of its halves     *)
(* (both are never negative: the folds read lo before each step, which     *)
(* makes TLC evaluate the accumulator step by step).                       *)
(***************************************************************************)
Half == 2 ^ 16

\* result << 1 on u32: the top bit is dropped
Shl1(r) == << (r[1] * 2 + r[2] \div 32768) % Half, (r[2] * 2) % Half >>

\* x ^ (1 << k)
FlipBit(x, k) ==
    IF (x \div (2 ^ k)) % 2 = 1 THEN x - 2 ^ k ELSE x + 2 ^ k

\* one turn of the inner fold: result & 0x8000 is bit 15 of the low half,
\* and 0x8201 is bits 15, 9 and 0
CrcShift(r) ==
    IF (r[2] \div 32768) % 2 = 0
    THEN Shl1(r)
    ELSE << (r[1] * 2 + 1) % Half,
            FlipBit(FlipBit(FlipBit((r[2] * 2) % Half, 0), 9), 15) >>

RECURSIVE CrcShifts(_, _)
CrcShifts(r, n) ==
    IF n = 0 \/ r[2] < 0 THEN r ELSE CrcShifts(CrcShift(r), n - 1)

\* result ^ (*b as u32) << 8, then the eight shifts: the byte meets bits
\* 8..15 of the low half
CrcByte(r, b) ==
    CrcShifts(<< r[1], (r[2] % 256) + 256 * NatXor(r[2] \div 256, b) >>, 8)

RECURSIVE CrcFold(_, _)
CrcFold(r, s) ==
    IF s = << >> \/ r[2] < 0 THEN r ELSE CrcFold(CrcByte(r, Head(s)), Tail(s))

\* (fold & 0xFFFF) as u16 % 0x9987
get_checksum(key_part) == (CrcFold(<< 0, 0 >>, key_part)[2]) % 39303

\* a check of the length alone
verify_checksum_LengthOnly(key) == Len(key) = 25

verify_checksum(key) ==
    /\ Len(key) = 25
    /\ enc_part(get_checksum(SubSeq(key, 1, 24)), 3)[2] = key[25]

(***************************************************************************)
(* Dates.                                                                  *)
(***************************************************************************)
Ymd(y, m, d) == [y |-> y, m |-> m, d |-> d]

IsLeap(y) == (y % 4 = 0 /\ y % 100 # 0) \/ y % 400 = 0

DaysInMonth(y, m) ==
    IF m = 2 THEN (IF IsLeap(y) THEN 29 ELSE 28)
    ELSE IF m \in {4, 6, 9, 11} THEN 30 ELSE 31

\* Utc.ymd(y, m, d) panics unless the three name a calendar date
ValidYmd(y, m, d) ==
    /\ m >= 1 /\ m <= 12
    /\ d >= 1 /\ d <= DaysInMonth(y, m)

\* the order of Date<Utc>
DateLe(a, b) ==
    \/ a.y < b.y
    \/ a.y = b.y /\ a.m < b.m
    \/ a.y = b.y /\ a.m = b.m /\ a.d <= b.d

DateClamp(x, lo, hi) ==
    IF ~DateLe(lo, x) THEN lo ELSE IF ~DateLe(x, hi) THEN hi ELSE x

RECURSIVE DaysBeforeMonth(_, _)
DaysBeforeMonth(y, m) ==
    IF m <= 1 THEN 0 ELSE DaysBeforeMonth(y, m - 1) + DaysInMonth(y, m - 1)

\* the number of the day in the proleptic Gregorian calendar
DayNumber(date) ==
    LET p == date.y - 1
    IN  365 * p + p \div 4 - p \div 100 + p \div 400
        + DaysBeforeMonth(date.y, date.m) + date.d

\* a - b of two dates, a Duration in days
DateSub(a, b) == DayNumber(a) - DayNumber(b)

date_2004 == Ymd(2004, 1, 1)

date_2099 == Ymd(2099, 1, 1)

\* DateExt::enc
DateEnc(date) ==
    LET year == Clamp(date.y, 2004, 2099) - 2003
        month == Clamp(date.m, 1, 12)
        day == Clamp(date.d, 1, 31)
    IN  year * 512 + (month * 32 + day)

\* the year, month and day DateExt::dec hands to Utc.ymd
DateDecFields(val) ==
    Ymd(And(Shr(val, 9), 31) + 2003, And(Shr(val, 5), 15), And(val, 31))

\* DateExt::dec panics in Utc.ymd when the bits are no calendar date
DateDecPanics(val) ==
    LET f == DateDecFields(val) IN ~ValidYmd(f.y, f.m, f.d)

(***************************************************************************)
(* Editions.                                                               *)
(***************************************************************************)
Editions == {"Business", "Extreme", "Engineer", "NetworkAudit"}

\* KeyEdition as i32
EditionNum(e) ==
    CASE e = "Business" -> 0
      [] e = "Extreme" -> 1
      [] e = "Engineer" -> 2
      [] e = "NetworkAudit" -> 3

\* TryFrom<i32> for KeyEdition: "Unknown" is Err(UnknownEdition)
EditionTryFrom(value) ==
    CASE value = 0 -> "Business"
      [] value = 1 -> "Extreme"
      [] value = 2 -> "Engineer"
      [] value = 3 -> "NetworkAudit"
      [] OTHER -> "Unknown"

(***************************************************************************)
(* License.  expiry is [some, days]: None is [some |-> FALSE, days |-> 0]. *)
(***************************************************************************)
None == [some |-> FALSE, days |-> 0]

Some(days) == [some |-> TRUE, days |-> days]

License(edition, seats, purchase_date, expiry, maintenance_expiry, unk1, unk2, unk3) ==
    [edition |-> edition, seats |-> seats, purchase_date |-> purchase_date,
     expiry |-> expiry, maintenance_expiry |-> maintenance_expiry,
     unk1 |-> unk1, unk2 |-> unk2, unk3 |-> unk3]

\* License::new, with the three numbers drawn and the current date
New(edition, unk1, unk2, unk3, now) ==
    License(edition, 1, now, None, 3658, unk1, unk2, unk3)

with_purchase_date(self, date) ==
    [self EXCEPT !.purchase_date = DateClamp(date, date_2004, date_2099)]

with_edition(self, edition) == [self EXCEPT !.edition = edition]

with_seats(self, seats) == [self EXCEPT !.seats = Clamp(seats, 1, 797)]

with_license_expiry(self, duration) == [self EXCEPT !.expiry = duration]

with_maintenance_expiry(self, duration) ==
    [self EXCEPT !.maintenance_expiry = Clamp(duration, 1, 3658)]

(***************************************************************************)
(* from_key.  An outcome is [kind, expected, found, license]: kind is      *)
(* "Ok", one of the three KeyError variants, or "Panic".                   *)
(***************************************************************************)
NoLicense == License("Unknown", 0, Ymd(0, 0, 0), None, 0, 0, 0, 0)

Outcome(kind, expected, found, license) ==
    [kind |-> kind, expected |-> expected, found |-> found,
     license |-> license]

\* a filter that lets the underscore through
Sanitize_KeepsUnderscore(input) ==
    SelectSeq(input, LAMBDA b : IsAsciiAlphanumeric(b) \/ b = 95)

\* key.as_ref().iter().filter(|b| b.is_ascii_alphanumeric())
Sanitize(input) == SelectSeq(input, IsAsciiAlphanumeric)

\* the nine key_parts
KeyParts(key) ==
    << dec_part(SubSeq(key, 1, 2)), dec_part(SubSeq(key, 3, 4)),
       dec_part(SubSeq(key, 5, 6)), dec_part(SubSeq(key, 7, 8)),
       dec_part(SubSeq(key, 9, 12)), dec_part(SubSeq(key, 13, 16)),
       dec_part(SubSeq(key, 17, 19)), dec_part(SubSeq(key, 20, 22)),
       dec_part(SubSeq(key, 23, 24)) >>

\* a decoding that reads the expiry field as the day count generate wrote
Decode_RawExpiry(key) ==
    LET kp == KeyParts(key)
        low == And(kp[9], 255)
        edition == EditionTryFrom(Xor(Xor(low, kp[1]), 191) - 1)
        seats == Xor(Xor(kp[9], kp[5]), 18261)
        purchase == Xor(Xor(kp[9], kp[6]), 31937)
        expiry == Xor(Xor(low, kp[7]), 1021)
        maintenance_expiry == Xor(Xor(low, kp[8]), 2357)
        unk1 == Xor(Xor(low, kp[2]), 237)
        unk2 == Xor(Xor(low, And(kp[3], 65535)), 119)
        unk3 == Xor(Xor(low, And(kp[4], 65535)), 223)
    IN  IF edition = "Unknown"
        THEN Outcome("UnknownEdition", 0, 0, NoLicense)
        ELSE IF DateDecPanics(purchase)
        THEN Outcome("Panic", 0, 0, NoLicense)
        ELSE Outcome("Ok", 0, 0,
                 License(edition, seats, DateDecFields(purchase),
                         IF expiry = 0 THEN None ELSE Some(expiry),
                         maintenance_expiry, unk1, unk2, unk3))

\* from_key past the length and checksum checks (key_parts[i] is kp[i + 1])
Decode(key) ==
    LET kp == KeyParts(key)
        low == And(kp[9], 255)
        edition == EditionTryFrom(Xor(Xor(low, kp[1]), 191) - 1)
        seats == Xor(Xor(kp[9], kp[5]), 18261)
        purchase == Xor(Xor(kp[9], kp[6]), 31937)
        expiry == Xor(Xor(low, kp[7]), 1021)
        maintenance_expiry == Xor(Xor(low, kp[8]), 2357)
        unk1 == Xor(Xor(low, kp[2]), 237)
        unk2 == Xor(Xor(low, And(kp[3], 65535)), 119)
        unk3 == Xor(Xor(low, And(kp[4], 65535)), 223)
    IN  IF edition = "Unknown"
        THEN Outcome("UnknownEdition", 0, 0, NoLicense)
        ELSE IF DateDecPanics(purchase)
        THEN Outcome("Panic", 0, 0, NoLicense)
        ELSE IF expiry # 0 /\ DateDecPanics(expiry)
        THEN Outcome("Panic", 0, 0, NoLicense)
        ELSE Outcome("Ok", 0, 0,
                 License(edition, seats, DateDecFields(purchase),
                         IF expiry = 0 THEN None
                         ELSE Some(DateSub(DateDecFields(expiry),
                                           DateDecFields(purchase))),
                         maintenance_expiry, unk1, unk2, unk3))

\* from_key reporting the length of the input as found
from_key_RawLength(input) ==
    LET key == Sanitize(input)
    IN  IF Len(key) # 25
        THEN Outcome("InvalidLength", 25, Len(input), NoLicense)
        ELSE IF ~verify_checksum(key)
        THEN Outcome("InvalidChecksum", get_checksum(SubSeq(key, 1, 24)),
                     key[25], NoLicense)
        ELSE Decode(key)

from_key(input) ==
    LET key == Sanitize(input)
    IN  IF Len(key) # 25
        THEN Outcome("InvalidLength", 25, Len(key), NoLicense)
        ELSE IF ~verify_checksum(key)
        THEN Outcome("InvalidChecksum", get_checksum(SubSeq(key, 1, 24)),
                     key[25], NoLicense)
        ELSE Decode(key)

(***************************************************************************)
(* generate and generate_string.  A result is [kind, bytes]: kind is "Ok"  *)
(* or "Panic".  pair is what gen_pair drew for bytes 22 and 23.            *)
(***************************************************************************)
\* the values generate hands to enc_part for bytes 0..21, and their widths
FieldValues(self, pair) ==
    LET purchase_date == DateEnc(self.purchase_date)
        expiry == IF self.expiry.some THEN self.expiry.days ELSE 0
        maintenance_expiry == self.maintenance_expiry
        base_val == dec_part(pair)
        low == And(base_val, 255)
        wide == And(base_val, 16777215)
    IN  << Xor(Xor(low, EditionNum(self.edition) + 1), 191),
           Xor(Xor(low, self.unk1), 237),
           Xor(Xor(low, self.unk2), 119),
           Xor(Xor(low, self.unk3), 223),
           Xor(Xor(wide, self.seats), 18261),
           Xor(Xor(wide, purchase_date), 31937),
           Xor(Xor(low, expiry), 1021),
           Xor(Xor(low, maintenance_expiry), 2357) >>

FieldWidths == << 2, 2, 2, 2, 4, 4, 3, 3 >>

GenResult(kind, bytes) == [kind |-> kind, bytes |-> bytes]

\* generate writing the last of the three checksum symbols
generate_LastSymbol(self, pair) ==
    LET v == FieldValues(self, pair)
    IN  IF \E i \in 1..8 : EncPanics(v[i], FieldWidths[i])
        THEN GenResult("Panic", << >>)
        ELSE LET body == enc_part(v[1], 2) \o enc_part(v[2], 2)
                         \o enc_part(v[3], 2) \o enc_part(v[4], 2)
                         \o enc_part(v[5], 4) \o enc_part(v[6], 4)
                         \o enc_part(v[7], 3) \o enc_part(v[8], 3) \o pair
                 enc_checksum == enc_part(get_checksum(body), 3)
             IN  GenResult("Ok", Append(body, enc_checksum[3]))

generate(self, pair) ==
    LET v == FieldValues(self, pair)
    IN  IF \E i \in 1..8 : EncPanics(v[i], FieldWidths[i])
        THEN GenResult("Panic", << >>)
        ELSE LET body == enc_part(v[1], 2) \o enc_part(v[2], 2)
                         \o enc_part(v[3], 2) \o enc_part(v[4], 2)
                         \o enc_part(v[5], 4) \o enc_part(v[6], 4)
                         \o enc_part(v[7], 3) \o enc_part(v[8], 3) \o pair
                 enc_checksum == enc_part(get_checksum(body), 3)
             IN  GenResult("Ok", Append(body, enc_checksum[2]))

\* key.insert(idx, b) of a Vec<u8>, idx counted from 0
Insert(key, idx, b) ==
    SubSeq(key, 1, idx) \o << b >> \o SubSeq(key, idx + 1, Len(key))

generate_string(self, separators, pair) ==
    LET g == generate(self, pair)
    IN  IF g.kind = "Ok" /\ separators
        THEN GenResult("Ok",
                 Insert(Insert(Insert(Insert(g.bytes, 20, 45), 15, 45),
                               10, 45), 5, 45))
        ELSE g

(***************************************************************************)
(* is_valid_key, with Utc::today() as now.                                 *)
(***************************************************************************)
is_valid_key(self, now) ==
    LET inRange == DateLe(date_2004, self.purchase_date)
                   /\ DateLe(self.purchase_date, date_2099)
        current_days == DateEnc(now)
        purchase_days == DateEnc(self.purchase_date)
        expiry_days == IF self.expiry.some THEN self.expiry.days ELSE 0
        days_left == IF inRange
                     THEN (expiry_days + purchase_days) - current_days
                     ELSE 0
    IN  /\ (~self.expiry.some \/ days_left > 0)
        /\ self.seats >= 0 /\ self.seats < 797
        /\ self.unk1 >= 99 /\ self.unk1 < 990
        /\ self.unk2 <= 100
        /\ self.unk3 <= 100
        /\ self.maintenance_expiry < 3659

(***************************************************************************)
(* The inputs the model draws from.                                        *)
(***************************************************************************)
\* Utc::today()
Todays == {Ymd(2024, 2, 1)}

\* what License::new draws for <<unk1, unk2, unk3>>: the ends of
\* gen_range(100, 989), gen_range(0, 100), gen_range(0, 100)
SaltDraws == {<< 100, 0, 0 >>, << 988, 99, 99 >>}

\* what gen_pair draws: two symbols of the alphabet, by their indices
PairDigits == {0, 33}

Pairs == {<< KEY_CHARS[i + 1], KEY_CHARS[j + 1] >> : i, j \in PairDigits}

SeatsArgs == {0, 797, 1000}

PurchaseArgs ==
    {Ymd(2003, 12, 31), Ymd(2024, 1, 31), Ymd(2035, 1, 1), Ymd(2100, 6, 1)}

ExpiryArgs == {None, Some(-1), Some(1), Some(2), Some(50), Some(3658)}

MaintenanceArgs == {0, 100, 4000}

\* values a client writes to the public fields without the builder
SeatsWrites == {0}

PurchaseWrites == {Ymd(2003, 12, 31)}

MaintenanceWrites == {3659}

\* the Licenses whose keys the text specification edits
TextLicenses ==
    LET now == CHOOSE t \in Todays : TRUE
    IN  {New(e, 555, 42, 7, now) : e \in {"Business", "NetworkAudit"}}
        \cup {with_license_expiry(New("Extreme", 555, 42, 7, now), Some(1))}

TextPairs == {<< KEY_CHARS[8], KEY_CHARS[34] >>}

\* space, hyphen, underscore
Separators == {32, 45, 95}

\* where a user inserts a separator: a byte offset, or the end of the text
InsertOffsets == {5}

\* symbols a user types over the last one: 2 and E of the alphabet, and
\* 0 and a, which are alphanumeric and not in the alphabet
TamperSymbols == {50, 69, 48, 97}

\* the symbol a user types after the last one
AppendSymbols == {69}

(***************************************************************************)
(* State.                                                                  *)
(*   lic     the License the client holds                                  *)
(*   today   the current UTC date                                          *)
(*   calls   builder calls and field writes made on lic                    *)
(*   gen     the result of the last generate / generate_string             *)
(*   text    the key text a user holds, and edits made to it               *)
(*   parsed  the last from_key call, [input, out]; prev the one before     *)
(*   valid   the last is_valid_key's result: "none", "true" or "false"     *)
(*   op      the last operation                                            *)
(***************************************************************************)
NoGen == GenResult("None", << >>)

Answer(b) == IF b THEN "true" ELSE "false"

NoParse == [input |-> << >>, out |-> Outcome("None", 0, 0, NoLicense)]

Init ==
    /\ today \in Todays
    /\ \E e \in Editions, u \in SaltDraws :
          lic = New(e, u[1], u[2], u[3], today)
    /\ calls = 0
    /\ gen = NoGen
    /\ text = << >>
    /\ edits = 0
    /\ parsed = NoParse
    /\ prev = NoParse
    /\ valid = "none"
    /\ op = "new"

\* The client builds the License first (as the GUI does) and then makes
\* one use of it: it validates it, or it generates a key and parses it.
Building == gen.kind = "None" /\ valid = "none" /\ calls < MaxCalls

Built(self, name) ==
    /\ lic' = self
    /\ calls' = calls + 1
    /\ op' = name
    /\ UNCHANGED << today, gen, text, edits, parsed, prev, valid >>

WithEdition ==
    /\ Building
    /\ \E e \in Editions : Built(with_edition(lic, e), "with_edition")

WithSeats ==
    /\ Building
    /\ \E n \in SeatsArgs : Built(with_seats(lic, n), "with_seats")

WithPurchaseDate ==
    /\ Building
    /\ \E d \in PurchaseArgs :
          Built(with_purchase_date(lic, d), "with_purchase_date")

WithLicenseExpiry ==
    /\ Building
    /\ \E x \in ExpiryArgs :
          Built(with_license_expiry(lic, x), "with_license_expiry")

WithMaintenanceExpiry ==
    /\ Building
    /\ \E n \in MaintenanceArgs :
          Built(with_maintenance_expiry(lic, n), "with_maintenance_expiry")

\* license.seats = n: the field is public
WriteSeats ==
    /\ Building
    /\ \E n \in SeatsWrites : Built([lic EXCEPT !.seats = n], "write")

WritePurchaseDate ==
    /\ Building
    /\ \E d \in PurchaseWrites :
          Built([lic EXCEPT !.purchase_date = d], "write")

WriteMaintenanceExpiry ==
    /\ Building
    /\ \E n \in MaintenanceWrites :
          Built([lic EXCEPT !.maintenance_expiry = n], "write")

\* lic.generate()
Generate ==
    /\ gen.kind = "None" /\ valid = "none"
    /\ \E pair \in Pairs : gen' = generate(lic, pair)
    /\ op' = "generate"
    /\ UNCHANGED << lic, today, calls, text, edits, parsed, prev, valid >>

\* License::from_key(key) of the key just generated
ParseGenerated ==
    /\ gen.kind = "Ok" /\ parsed.out.kind = "None"
    /\ parsed' = [input |-> gen.bytes, out |-> from_key(gen.bytes)]
    /\ op' = "from_key"
    /\ UNCHANGED << lic, today, calls, gen, text, edits, prev, valid >>

\* lic.is_valid_key()
IsValidKey ==
    /\ gen.kind = "None" /\ valid = "none"
    /\ valid' = Answer(is_valid_key(lic, today))
    /\ op' = "is_valid_key"
    /\ UNCHANGED << lic, today, calls, gen, text, edits, parsed, prev >>

Next ==
    \/ WithEdition
    \/ WithSeats
    \/ WithPurchaseDate
    \/ WithLicenseExpiry
    \/ WithMaintenanceExpiry
    \/ WriteSeats
    \/ WritePurchaseDate
    \/ WriteMaintenanceExpiry
    \/ Generate
    \/ ParseGenerated
    \/ IsValidKey

Spec == Init /\ [][Next]_vars

(***************************************************************************)
(* The text specification: a key is generated as a string, a user edits    *)
(* the text, and from_key parses what the user holds.                      *)
(***************************************************************************)
InitText ==
    /\ today \in Todays
    /\ lic \in TextLicenses
    /\ calls = 0
    /\ gen = NoGen
    /\ text = << >>
    /\ edits = 0
    /\ parsed = NoParse
    /\ prev = NoParse
    /\ valid = "none"
    /\ op = "new"

\* lic.generate_string(separators)
GenerateString ==
    /\ gen.kind = "None"
    /\ \E separators \in BOOLEAN, pair \in TextPairs :
          /\ gen' = generate_string(lic, separators, pair)
          /\ text' = gen'.bytes
    /\ op' = "generate_string"
    /\ UNCHANGED << lic, today, calls, edits, parsed, prev, valid >>

Editing == gen.kind = "Ok" /\ edits < MaxEdits

Edited(t) ==
    /\ text' = t
    /\ edits' = edits + 1
    /\ op' = "edit"
    /\ UNCHANGED << lic, today, calls, gen, parsed, prev, valid >>

\* the user puts a separator into the text
InsertSeparator ==
    /\ Editing
    /\ \E at \in InsertOffsets \cup {Len(text)}, b \in Separators :
          at <= Len(text) /\ Edited(Insert(text, at, b))

\* the index of the last alphanumeric byte of t, 0 when it has none
RECURSIVE LastSymbol(_)
LastSymbol(t) ==
    IF t = << >> THEN 0
    ELSE IF IsAsciiAlphanumeric(t[Len(t)]) THEN Len(t)
    ELSE LastSymbol(SubSeq(t, 1, Len(t) - 1))

\* the user types another symbol over the last one
ReplaceLast ==
    /\ Editing
    /\ LastSymbol(text) > 0
    /\ \E b \in TamperSymbols :
          /\ b # text[LastSymbol(text)]
          /\ Edited([text EXCEPT ![LastSymbol(text)] = b])

\* the user deletes the last byte
DropLast ==
    /\ Editing
    /\ text # << >>
    /\ Edited(SubSeq(text, 1, Len(text) - 1))

\* the user types one more symbol at the end
AppendSymbol ==
    /\ Editing
    /\ \E b \in AppendSymbols : Edited(Append(text, b))

\* License::from_key(text)
FromKey ==
    /\ gen.kind = "Ok"
    /\ parsed.out.kind = "None" \/ parsed.input # text
    /\ prev' = parsed
    /\ parsed' = [input |-> text, out |-> from_key(text)]
    /\ op' = "from_key"
    /\ UNCHANGED << lic, today, calls, gen, text, edits, valid >>

\* License::from_key(text).unwrap().is_valid_key()
ValidateParsed ==
    /\ parsed.out.kind = "Ok"
    /\ op = "from_key"
    /\ lic' = parsed.out.license
    /\ valid' = Answer(is_valid_key(parsed.out.license, today))
    /\ op' = "is_valid_key"
    /\ UNCHANGED << today, calls, gen, text, edits, parsed, prev >>

NextText ==
    \/ GenerateString
    \/ InsertSeparator
    \/ ReplaceLast
    \/ DropLast
    \/ AppendSymbol
    \/ FromKey
    \/ ValidateParsed

SpecText == InitText /\ [][NextText]_vars

(***************************************************************************)
(* Properties.                                                             *)
(***************************************************************************)
InPurchaseRange(L) ==
    DateLe(date_2004, L.purchase_date) /\ DateLe(L.purchase_date, date_2099)

\* the salts License::new can draw
ConstructorSalts(L) ==
    /\ L.unk1 >= 100 /\ L.unk1 <= 988
    /\ L.unk2 >= 0 /\ L.unk2 <= 99
    /\ L.unk3 >= 0 /\ L.unk3 <= 99

\* the ranges the builder keeps: seats 1..797, purchase_date 2004-01-01
\* to 2099-01-01, maintenance_expiry 1..3658 days
BuilderRange(L) ==
    /\ L.seats >= 1 /\ L.seats <= 797
    /\ InPurchaseRange(L)
    /\ L.maintenance_expiry >= 1 /\ L.maintenance_expiry <= 3658
    /\ ConstructorSalts(L)

\* the alphanumeric bytes of a text, in order
RECURSIVE Alnums(_)
Alnums(t) ==
    IF t = << >> THEN << >>
    ELSE IF (Head(t) >= 48 /\ Head(t) <= 57) \/ (Head(t) >= 65 /\ Head(t) <= 90)
            \/ (Head(t) >= 97 /\ Head(t) <= 122)
    THEN << Head(t) >> \o Alnums(Tail(t))
    ELSE Alnums(Tail(t))

\* k2 is k with non-alphanumeric bytes inserted
RECURSIVE IsInsertion(_, _)
IsInsertion(k2, k) ==
    IF k2 = << >> THEN k = << >>
    ELSE \/ k # << >> /\ Head(k2) = Head(k) /\ IsInsertion(Tail(k2), Tail(k))
         \/ Head(k2) \in Separators /\ IsInsertion(Tail(k2), k)

\* C1: from_key(generate(L)) succeeds and returns the edition, seats,
\* purchase_date, maintenance_expiry, salt1, salt2 and salt3 of L, for every
\* L in the builder's ranges with no expiry and every pair drawn.
C1_RoundTrip ==
    (op = "from_key" /\ parsed.input = gen.bytes
     /\ BuilderRange(lic) /\ ~lic.expiry.some)
    => /\ parsed.out.kind = "Ok"
       /\ parsed.out.license.edition = lic.edition
       /\ parsed.out.license.seats = lic.seats
       /\ parsed.out.license.purchase_date = lic.purchase_date
       /\ parsed.out.license.maintenance_expiry = lic.maintenance_expiry
       /\ parsed.out.license.unk1 = lic.unk1
       /\ parsed.out.license.unk2 = lic.unk2
       /\ parsed.out.license.unk3 = lic.unk3

\* C2: from_key returns Ok(License) or one of InvalidLength,
\* InvalidChecksum, UnknownEdition, and never fails in any other way.
C2_ThreeFailureModes ==
    op = "from_key"
    => parsed.out.kind \in
          {"Ok", "InvalidLength", "InvalidChecksum", "UnknownEdition"}

\* C3: generate() completes and returns a key for every License the
\* builder can make, whatever the Duration given to with_license_expiry.
C3_GenerateTotal == op = "generate" => gen.kind = "Ok"

\* the Licenses C4 is about: the builder's ranges, and an expiry that is
\* absent or 1..3658 days
InRange(L) ==
    /\ BuilderRange(L)
    /\ L.expiry.some => (L.expiry.days >= 1 /\ L.expiry.days <= 3658)

\* C4: for every License with in-range fields and every pair drawn,
\* generate() returns 25 bytes, each a symbol of the alphabet, byte 24 is
\* the middle of the three symbols that encode the checksum of bytes 0..23,
\* and verify_checksum holds of the key.
C4_WellFormed ==
    (op = "generate" /\ InRange(lic))
    => /\ gen.kind = "Ok"
       /\ Len(gen.bytes) = 25
       /\ \A i \in 1..25 : gen.bytes[i] \in Alphabet
       /\ gen.bytes[25] = enc_part(get_checksum(SubSeq(gen.bytes, 1, 24)), 3)[2]
       /\ verify_checksum(gen.bytes)

\* a key of a License with 797 seats and an expiry has been generated
C4_Witness ==
    /\ op = "generate" /\ InRange(lic)
    /\ lic.seats = 797 /\ lic.expiry.some
    /\ gen.kind = "Ok" /\ Len(gen.bytes) = 25

\* a License at its constructor defaults, but for seats
DefaultsButSeats(L) ==
    /\ L.purchase_date = today
    /\ ~L.expiry.some
    /\ L.maintenance_expiry = 3658
    /\ ConstructorSalts(L)

\* C5: a License with seats = 1 or seats = 797 (other fields at their
\* constructor defaults) passes is_valid_key(), and one with seats = 0
\* fails it.
C5_SeatBoundaries ==
    (op = "is_valid_key" /\ DefaultsButSeats(lic))
    => /\ lic.seats \in {1, 797} => valid = "true"
       /\ lic.seats = 0 => valid = "false"

\* the fields is_valid_key reads besides the dates, in the ranges both
\* the builder and is_valid_key accept
OthersInRange(L) ==
    /\ L.seats >= 1 /\ L.seats <= 796
    /\ L.maintenance_expiry >= 1 /\ L.maintenance_expiry <= 3658
    /\ ConstructorSalts(L)

\* C6: is_valid_key() is true for a purchase_date of 2004-01-01 or
\* 2099-01-01 (other fields in range, no expiry), and false for every
\* purchase_date before 2004-01-01 or after 2099-01-01, with or without
\* an expiry.
C6_PurchaseRange ==
    op = "is_valid_key"
    => /\ (lic.purchase_date \in {date_2004, date_2099}
           /\ OthersInRange(lic) /\ ~lic.expiry.some) => valid = "true"
       /\ ~InPurchaseRange(lic) => valid = "false"

\* C7: with the other fields in range, purchase_date in 2004-01-01 ..
\* 2099-01-01 and an expiry of d days, is_valid_key() is true exactly when
\* the calendar date purchase_date + d days is later than the current date.
C7_ExpiryClause ==
    (op = "is_valid_key" /\ OthersInRange(lic) /\ InPurchaseRange(lic)
     /\ lic.expiry.some)
    => (valid = "true"
        <=> DayNumber(lic.purchase_date) + lic.expiry.days > DayNumber(today))

\* C8: an input whose number n of alphanumeric bytes is not 25 fails with
\* InvalidLength{expected: 25, found: n}, never with InvalidChecksum or
\* UnknownEdition, and never succeeds.
C8_LengthError ==
    (parsed.out.kind # "None" /\ Len(Alnums(parsed.input)) # 25)
    => parsed.out
         = Outcome("InvalidLength", 25, Len(Alnums(parsed.input)), NoLicense)

\* a text with separators and 24 symbols has been refused for its length
C8_Witness ==
    /\ parsed.out.kind = "InvalidLength"
    /\ parsed.out.found = 24
    /\ Len(parsed.input) > 25

\* C9: from_key(k') returns what from_key(k) returns (the same License, or
\* the same error with the same payload) when k' is k with non-alphanumeric
\* characters inserted.
C9_Sanitization ==
    (prev.out.kind # "None" /\ parsed.out.kind # "None"
     /\ (IsInsertion(parsed.input, prev.input)
         \/ IsInsertion(prev.input, parsed.input)))
    => parsed.out = prev.out

\* a key has parsed, and so has the key with a separator put into it
C9_Witness ==
    /\ prev.out.kind = "Ok" /\ parsed.out.kind = "Ok"
    /\ Len(parsed.input) > Len(prev.input)
    /\ IsInsertion(parsed.input, prev.input)

\* k2 is the 25-symbol key k, whose last symbol is the checksum's, with
\* another alphanumeric symbol in the last place
TamperedLast(k2, k) ==
    /\ Len(k) = 25 /\ Len(k2) = 25
    /\ SubSeq(k2, 1, 24) = SubSeq(k, 1, 24)
    /\ k2[25] # k[25]
    /\ k[25] = enc_part(get_checksum(SubSeq(k, 1, 24)), 3)[2]

\* C10: replacing only the last symbol of a 25-symbol key whose checksum
\* verifies by another alphanumeric symbol makes from_key fail with
\* InvalidChecksum, with expected the checksum of symbols 0..23 and found
\* the byte value of the last symbol received.
C10_TamperDetected ==
    (prev.out.kind # "None" /\ parsed.out.kind # "None"
     /\ TamperedLast(Alnums(parsed.input), Alnums(prev.input)))
    => LET k2 == Alnums(parsed.input)
       IN  parsed.out
             = Outcome("InvalidChecksum", get_checksum(SubSeq(k2, 1, 24)),
                       k2[25], NoLicense)

\* a key has parsed, and the key with its last symbol replaced has been
\* refused for its checksum
C10_Witness ==
    /\ prev.out.kind = "Ok"
    /\ TamperedLast(Alnums(parsed.input), Alnums(prev.input))
    /\ parsed.out.kind = "InvalidChecksum"
    /\ parsed.out.found = 50

\* C11: for an in-range License with no expiry, from_key(generate(L))
\* returns a License with no expiry; for an in-range License with an expiry
\* of d days, 1 <= d <= 3658, from_key(generate(L)) never returns a License
\* whose expiry is d days (generate writes the day count, from_key reads the
\* field as a packed date and subtracts the purchase date).
C11_ExpiryAsymmetry ==
    (op = "from_key" /\ parsed.input = gen.bytes /\ InRange(lic))
    => IF lic.expiry.some
       THEN parsed.out.kind = "Ok"
            => parsed.out.license.expiry # Some(lic.expiry.days)
       ELSE parsed.out.kind = "Ok" /\ parsed.out.license.expiry = None

\* the key of a License with an expiry of 50 days has parsed, to a License
\* with another expiry
C11_Witness ==
    /\ op = "from_key" /\ parsed.input = gen.bytes /\ InRange(lic)
    /\ lic.expiry = Some(50)
    /\ parsed.out.kind = "Ok"
    /\ parsed.out.license.expiry.some
    /\ parsed.out.license.expiry.days # 50

====
